---- MODULE Spec2Model ----
(***************************************************************************)
(* Model of the OCI auth backend's configuration handlers (path_config.go) *)
(* and of its cached authentication client (backend.go).                   *)
(*                                                                         *)
(* Strings are sequences of one-character strings, so that                 *)
(* strings.TrimSpace and strings.Contains are computed on the characters.  *)
(* Request handlers run on independent goroutines: every handler is a      *)
(* sequence of steps, one step per access to shared state (the storage,    *)
(* authClientMutex, the authenticationClient slot).                        *)
(***************************************************************************)
EXTENDS Integers, Sequences, FiniteSets, TLC

\* ---------------------------------------------------------------- bounds
MaxCalls == 4

\* the goroutines that run handlers concurrently
Threads == {1, 2}

\* ---------------------------------------------------------------- strings
Empty == <<>>
Blank == <<" ">>
ModeInstance == <<"i","n","s","t","a","n","c","e">>
ModeAPIKey == <<"a","p","i","k","e","y">>
ModeOther == <<"x">>
BeginMarker == <<"B","E","G","I","N">>
PrivateKeyMarker == <<"P","R","I","V","A","T","E"," ","K","E","Y">>
PemKey == BeginMarker \o <<" ">> \o PrivateKeyMarker
NotPem == <<"k">>
ConfigKey == <<"c","o","n","f","i","g">>
OtherKey == <<"r","o","l","e">>

IsSpace(c) == c \in {" ", "\t", "\n", "\r"}

RECURSIVE TrimLeft(_)
TrimLeft(s) ==
    IF s = <<>> THEN s
    ELSE IF IsSpace(Head(s)) THEN TrimLeft(Tail(s)) ELSE s

RECURSIVE TrimRight(_)
TrimRight(s) ==
    IF s = <<>> THEN s
    ELSE IF IsSpace(s[Len(s)]) THEN TrimRight(SubSeq(s, 1, Len(s) - 1)) ELSE s

TrimSpace(s) == TrimRight(TrimLeft(s))

Contains(s, sub) ==
    \E i \in 0..(Len(s) - Len(sub)) : SubSeq(s, i + 1, i + Len(sub)) = sub

\* ---------------------------------------------------------------- records
Nil == [nil |-> TRUE]

OCIConfigEntry(home, mode, ten, usr, fp, key, pass, reg) ==
    [HomeTenancyId |-> home, AuthMode |-> mode, TenancyOCID |-> ten,
     UserOCID |-> usr, Fingerprint |-> fp, PrivateKey |-> key,
     PrivateKeyPassphrase |-> pass, Region |-> reg]

\* json tags of OCIConfigEntry: every field but home_tenancy_id is omitempty
JSONTag ==
    [HomeTenancyId |-> "home_tenancy_id", AuthMode |-> "auth_mode",
     TenancyOCID |-> "tenancy_ocid", UserOCID |-> "user_ocid",
     Fingerprint |-> "fingerprint", PrivateKey |-> "private_key",
     PrivateKeyPassphrase |-> "private_key_passphrase", Region |-> "region"]

EntryFields == DOMAIN JSONTag

FieldOfTag(tag) == CHOOSE f \in EntryFields : JSONTag[f] = tag

\* mutant: an auth_mode equal to the default is left out of the object
StorageEntryJSON_OmitDefaultMode(e) ==
    LET kept == {f \in EntryFields :
                    \/ f = "HomeTenancyId"
                    \/ (e[f] # Empty /\ ~(f = "AuthMode" /\ e[f] = ModeInstance))}
    IN  [tag \in {JSONTag[f] : f \in kept} |-> e[FieldOfTag(tag)]]

\* logical.StorageEntryJSON("config", configEntry): the JSON object written
StorageEntryJSON(e) ==
    LET kept == {f \in EntryFields : f = "HomeTenancyId" \/ e[f] # Empty}
    IN  [tag \in {JSONTag[f] : f \in kept} |-> e[FieldOfTag(tag)]]

\* entry.DecodeJSON(&result): keys missing from the object stay ""
DecodeJSON(obj) ==
    [f \in EntryFields |-> IF JSONTag[f] \in DOMAIN obj THEN obj[JSONTag[f]] ELSE Empty]

\* ---------------------------------------------------------------- requests
\* framework.FieldSchema defaults of pathConfig: auth_mode defaults to
\* "instance", every other TypeString field to "".
FieldSchemaDefault(key) == IF key = "auth_mode" THEN ModeInstance ELSE Empty

\* data.Get(key).(string): the raw value, or the schema default when absent
DataGet(raw, key) == IF key \in DOMAIN raw THEN raw[key] ELSE FieldSchemaDefault(key)

HomeA == <<"t","1">>

TenA == <<"o">>
UserA == <<"u">>
FingerA == <<"f">>
RegionA == <<"r">>
PassA == <<"p">>

\* a request's raw field map: the keys the client sent
Raw(home, mode, ten, usr, fp, key, pass, reg) ==
    [home_tenancy_id |-> home, auth_mode |-> mode, tenancy_ocid |-> ten,
     user_ocid |-> usr, fingerprint |-> fp, private_key |-> key,
     private_key_passphrase |-> pass, region |-> reg]

WithoutKey(raw, key) == [k \in (DOMAIN raw) \ {key} |-> raw[k]]

\* the requests a client may send: the cases of path_config_test.go and the
\* boundary values of each validation in pathConfigCreateUpdate
Requests ==
    { \* instance mode: auth_mode left out / empty / explicit with unused fields
      WithoutKey(Raw(HomeA, Empty, Empty, Empty, Empty, Empty, Empty, Empty), "auth_mode"),
      Raw(HomeA, Empty, Empty, Empty, Empty, Empty, Empty, Empty),
      Raw(HomeA, ModeInstance, TenA, UserA, FingerA, PemKey, PassA, RegionA),
      \* home_tenancy_id empty or whitespace
      Raw(Empty, ModeInstance, Empty, Empty, Empty, Empty, Empty, Empty),
      Raw(Blank, ModeAPIKey, TenA, UserA, FingerA, PemKey, PassA, RegionA),
      \* auth_mode outside instance / apikey
      Raw(HomeA, ModeOther, Empty, Empty, Empty, Empty, Empty, Empty),
      \* API key mode: complete, with a passphrase
      Raw(HomeA, ModeAPIKey, TenA, UserA, FingerA, PemKey, PassA, RegionA),
      \* API key mode: fields missing, whitespace-only, key without PEM markers
      Raw(HomeA, ModeAPIKey, TenA, Empty, Empty, Empty, Empty, Empty),
      Raw(HomeA, ModeAPIKey, TenA, UserA, FingerA, PemKey, Empty, Empty),
      Raw(HomeA, ModeAPIKey, Blank, UserA, FingerA, PemKey, Empty, RegionA),
      Raw(HomeA, ModeAPIKey, TenA, UserA, FingerA, NotPem, Empty, RegionA),
      Raw(HomeA, ModeAPIKey, TenA, UserA, FingerA, BeginMarker, Empty, RegionA),
      Raw(HomeA, ModeAPIKey, TenA, UserA, FingerA, PrivateKeyMarker, Empty, RegionA) }

Operations == {"create", "update"}

\* ---------------------------------------------------------------- storage
\* mutant: a missing entry decodes to the zero OCIConfigEntry
getOCIConfig_Zero(stored) ==
    IF stored = Nil THEN DecodeJSON([home_tenancy_id |-> Empty]) ELSE DecodeJSON(stored)

\* getOCIConfig: s.Get("config") then DecodeJSON; nil when no entry
getOCIConfig(stored) == IF stored = Nil THEN Nil ELSE DecodeJSON(stored)

\* pathConfigCreateUpdate up to (not including) setOCIConfig: the error
\* response it returns, or the configEntry it is about to persist.
\* getOk is the outcome of the storage read inside getOCIConfig.
CreateUpdateCheck(operation, raw, stored, getOk) ==
    LET homeTenancyId == DataGet(raw, "home_tenancy_id")
        existing == getOCIConfig(stored)
        authMode == IF DataGet(raw, "auth_mode") = Empty THEN ModeInstance
                    ELSE DataGet(raw, "auth_mode")
        tenancyOCID == DataGet(raw, "tenancy_ocid")
        userOCID == DataGet(raw, "user_ocid")
        fingerprint == DataGet(raw, "fingerprint")
        privateKey == DataGet(raw, "private_key")
        region == DataGet(raw, "region")
        privateKeyPassphrase == DataGet(raw, "private_key_passphrase")
        Fail(kind) == [err |-> kind, entry |-> Nil]
    IN  IF TrimSpace(homeTenancyId) = Empty THEN Fail("MissingField")
        ELSE IF ~getOk THEN Fail("PersistenceError")
        ELSE IF existing = Nil /\ operation = "update" THEN Fail("NotFound")
        ELSE IF authMode # ModeInstance /\ authMode # ModeAPIKey THEN Fail("InvalidAuthMode")
        ELSE IF authMode = ModeAPIKey
        THEN IF tenancyOCID = Empty \/ userOCID = Empty \/ fingerprint = Empty
                \/ privateKey = Empty \/ region = Empty
             THEN Fail("MissingApiKeyFields")
             ELSE IF ~Contains(privateKey, BeginMarker) \/ ~Contains(privateKey, PrivateKeyMarker)
             THEN Fail("InvalidPemFormat")
             ELSE [err |-> "", entry |-> OCIConfigEntry(homeTenancyId, authMode, tenancyOCID,
                                            userOCID, fingerprint, privateKey,
                                            privateKeyPassphrase, region)]
        ELSE [err |-> "", entry |-> OCIConfigEntry(homeTenancyId, authMode, Empty, Empty,
                                            Empty, Empty, Empty, Empty)]

ValidationErrors ==
    {"MissingField", "NotFound", "InvalidAuthMode", "MissingApiKeyFields", "InvalidPemFormat"}

\* mutant: the response copies the private key and its passphrase as well
ReadResponse_WithSecrets(e) ==
    [k \in {JSONTag[f] : f \in {g \in EntryFields : g = "HomeTenancyId" \/ e[g] # Empty}}
        |-> e[FieldOfTag(k)]]

\* pathConfigRead's response data for a stored entry (private_key and
\* private_key_passphrase are never copied)
ReadResponse(e) ==
    LET keys == {"home_tenancy_id"}
                  \cup (IF e.AuthMode # Empty THEN {"auth_mode"} ELSE {})
                  \cup (IF e.AuthMode = ModeAPIKey
                        THEN {"tenancy_ocid", "user_ocid", "fingerprint", "region"} ELSE {})
    IN  [k \in keys |-> e[FieldOfTag(k)]]

\* ---------------------------------------------------------------- providers
NoPassphrase == [set |-> FALSE]

\* mutant: the passphrase field is always passed by address, empty or not
createAPIKeyProvider_PassphraseAlways(config) ==
    IF config.TenancyOCID = Empty \/ config.UserOCID = Empty \/ config.Fingerprint = Empty
       \/ config.PrivateKey = Empty \/ config.Region = Empty
    THEN Nil
    ELSE [kind |-> "apikey", tenancy |-> config.TenancyOCID, user |-> config.UserOCID,
          region |-> config.Region, fingerprint |-> config.Fingerprint,
          privateKey |-> config.PrivateKey,
          passphrase |-> [set |-> TRUE, val |-> config.PrivateKeyPassphrase]]

\* mutant: the provider is built without looking at the fields
createAPIKeyProvider_Unchecked(config) ==
    [kind |-> "apikey", tenancy |-> config.TenancyOCID, user |-> config.UserOCID,
     region |-> config.Region, fingerprint |-> config.Fingerprint,
     privateKey |-> config.PrivateKey,
     passphrase |-> IF config.PrivateKeyPassphrase # Empty
                    THEN [set |-> TRUE, val |-> config.PrivateKeyPassphrase]
                    ELSE NoPassphrase]

\* createAPIKeyProvider: the provider, or Nil for its validation error
createAPIKeyProvider(config) ==
    IF config.TenancyOCID = Empty \/ config.UserOCID = Empty \/ config.Fingerprint = Empty
       \/ config.PrivateKey = Empty \/ config.Region = Empty
    THEN Nil
    ELSE [kind |-> "apikey", tenancy |-> config.TenancyOCID, user |-> config.UserOCID,
          region |-> config.Region, fingerprint |-> config.Fingerprint,
          privateKey |-> config.PrivateKey,
          passphrase |-> IF config.PrivateKeyPassphrase # Empty
                         THEN [set |-> TRUE, val |-> config.PrivateKeyPassphrase]
                         ELSE NoPassphrase]

\* createInstancePrincipalProvider: envOk is whether the host is an OCI instance
createInstancePrincipalProvider(envOk) == IF envOk THEN [kind |-> "instance"] ELSE Nil

\* mutant: only an empty auth_mode selects the instance principal
SelectedMode_EmptyOnly(config) ==
    IF config = Nil THEN "instance"
    ELSE IF config.AuthMode = Empty THEN "instance"
    ELSE IF config.AuthMode = ModeAPIKey THEN "apikey"
    ELSE "invalid"

\* the branch of getOrCreateAuthClient that picks the provider
SelectedMode(config) ==
    IF config = Nil THEN "instance"
    ELSE IF config.AuthMode = Empty \/ config.AuthMode = ModeInstance THEN "instance"
    ELSE IF config.AuthMode = ModeAPIKey THEN "apikey"
    ELSE "invalid"

\* ---------------------------------------------------------------- state
VARIABLES
    storage,               \* the JSON object stored under "config", or Nil
    authenticationClient,  \* b.authenticationClient, or Nil
    authClientMutex,       \* TRUE while b.authClientMutex is locked
    nextClientId,          \* identity of the next AuthenticationClient allocated
    pc,                    \* per goroutine: where it is in its handler
    op,                    \* per goroutine: the operation it is running
    configEntry,           \* per goroutine: local config / configEntry
    configProvider,        \* per goroutine: local configProvider
    returned,              \* the call that returned in the last step, if any
    calls,                 \* number of calls started
    invDone,               \* history: completed Invalidate("config") calls
    cuDone,                \* history: Create/Update handlers that returned success
    epochClients,          \* history: clients stored or returned since the last clear
    buildFailed,           \* history: some getOrCreateAuthClient call returned an error
    ghost                  \* history, per goroutine, of the call it is running

vars == <<storage, authenticationClient, authClientMutex, nextClientId, pc, op,
          configEntry, configProvider, returned, calls, invDone, cuDone,
          epochClients, buildFailed, ghost>>

NoGhost ==
    [put |-> "none", signal |-> "no", reads |-> 0, provs |-> 0, hit |-> FALSE,
     startInv |-> 0, startCU |-> 0, readInv |-> 0, readCU |-> 0, reqBad |-> FALSE,
     over |-> "none", defaulted |-> FALSE]

\* the history of a call that starts now
NewGhost == [NoGhost EXCEPT !.startInv = invDone, !.startCU = cuDone]

NoReturn == [op |-> "none", status |-> "none", val |-> Nil, g |-> NoGhost]

\* Backend(): the framework.Backend literal sets Help, PathsSpecial, Paths and
\* BackendType; its Invalidate field is left nil.
FrameworkInvalidateSet == FALSE

Init ==
    /\ storage = Nil
    /\ authenticationClient = Nil
    /\ authClientMutex = FALSE
    /\ nextClientId = 1
    /\ pc = [t \in Threads |-> "idle"]
    /\ op = [t \in Threads |-> "none"]
    /\ configEntry = [t \in Threads |-> Nil]
    /\ configProvider = [t \in Threads |-> Nil]
    /\ returned = NoReturn
    /\ calls = 0
    /\ invDone = 0
    /\ cuDone = 0
    /\ epochClients = {}
    /\ buildFailed = FALSE
    /\ ghost = [t \in Threads |-> NoGhost]

\* a call of goroutine t starts
Begin(t) ==
    /\ pc[t] = "idle"
    /\ calls < MaxCalls
    /\ calls' = calls + 1

\* goroutine t, running operation o, returns status / val; g is the history
\* of the call.  Deferred Unlock calls are part of the returning step.
Return(t, o, status, val, g) ==
    /\ pc' = [pc EXCEPT ![t] = "idle"]
    /\ op' = [op EXCEPT ![t] = "none"]
    /\ configEntry' = [configEntry EXCEPT ![t] = Nil]
    /\ configProvider' = [configProvider EXCEPT ![t] = Nil]
    /\ ghost' = [ghost EXCEPT ![t] = NoGhost]
    /\ returned' = [op |-> o, status |-> status, val |-> val, g |-> g]

\* goroutine t goes on to label with history g, locals c (config) and p (provider)
Goto(t, o, label, g, c, p) ==
    /\ pc' = [pc EXCEPT ![t] = label]
    /\ op' = [op EXCEPT ![t] = o]
    /\ configEntry' = [configEntry EXCEPT ![t] = c]
    /\ configProvider' = [configProvider EXCEPT ![t] = p]
    /\ ghost' = [ghost EXCEPT ![t] = g]
    /\ returned' = NoReturn

\* mutant: Lock() never waits
MutexAvailable_Always(locked) == TRUE

\* whether b.authClientMutex.Lock() can proceed
MutexAvailable(locked) == ~locked

\* ------------------------------------------------ getOrCreateAuthClient
getOrCreateAuthClient_Call(t) ==
    /\ Begin(t)
    /\ Goto(t, "goc", "goc_lock", NewGhost, Nil, Nil)
    /\ UNCHANGED <<storage, authenticationClient, authClientMutex, nextClientId,
                   invDone, cuDone, epochClients, buildFailed>>

\* mutant: the cached client is never used
CachedClientAvailable_Never(slot) == FALSE

\* if b.authenticationClient != nil
CachedClientAvailable(slot) == slot # Nil

\* mutant: the call takes a shared lock (RLock), which excludes nobody
getOrCreateAuthClient_Lock_Shared(t) ==
    /\ pc[t] = "goc_lock"
    /\ IF authenticationClient # Nil
       THEN /\ Return(t, "goc", "ok", authenticationClient, [ghost[t] EXCEPT !.hit = TRUE])
            /\ epochClients' = epochClients \cup {authenticationClient.id}
       ELSE /\ Goto(t, "goc", "goc_config", ghost[t], Nil, Nil)
            /\ UNCHANGED epochClients
    /\ UNCHANGED <<storage, authenticationClient, authClientMutex, nextClientId, calls,
                   invDone, cuDone, buildFailed>>

\* b.authClientMutex.Lock(); if b.authenticationClient != nil { return it }
getOrCreateAuthClient_Lock(t) ==
    /\ pc[t] = "goc_lock"
    /\ MutexAvailable(authClientMutex)
    /\ IF CachedClientAvailable(authenticationClient)
       THEN /\ Return(t, "goc", "ok", authenticationClient, [ghost[t] EXCEPT !.hit = TRUE])
            /\ epochClients' = epochClients \cup {authenticationClient.id}
            /\ UNCHANGED authClientMutex
       ELSE /\ authClientMutex' = TRUE
            /\ Goto(t, "goc", "goc_config", ghost[t], Nil, Nil)
            /\ UNCHANGED epochClients
    /\ UNCHANGED <<storage, authenticationClient, nextClientId, calls, invDone, cuDone,
                   buildFailed>>

\* mutant: the error return of the config read does not unlock the mutex
getOrCreateAuthClient_Config_NoUnlock(t) ==
    /\ pc[t] = "goc_config"
    /\ LET g == [ghost[t] EXCEPT !.reads = @ + 1, !.readInv = invDone, !.readCU = cuDone]
       IN  \E getOk \in BOOLEAN :
             IF getOk
             THEN /\ Goto(t, "goc", "goc_build", g, getOCIConfig(storage), Nil)
                  /\ UNCHANGED <<authClientMutex, buildFailed>>
             ELSE /\ Return(t, "goc", "ReadError", Nil, g)
                  /\ UNCHANGED authClientMutex
                  /\ buildFailed' = TRUE
    /\ UNCHANGED <<storage, authenticationClient, nextClientId, calls, invDone,
                   cuDone, epochClients>>

\* config, err := b.getOCIConfig(ctx, storage)
getOrCreateAuthClient_Config(t) ==
    /\ pc[t] = "goc_config"
    /\ LET g == [ghost[t] EXCEPT !.reads = @ + 1, !.readInv = invDone, !.readCU = cuDone]
       IN  \E getOk \in BOOLEAN :
             IF getOk
             THEN /\ Goto(t, "goc", "goc_build", g, getOCIConfig(storage), Nil)
                  /\ UNCHANGED <<authClientMutex, buildFailed>>
             ELSE /\ Return(t, "goc", "ReadError", Nil, g)
                  /\ authClientMutex' = FALSE
                  /\ buildFailed' = TRUE
    /\ UNCHANGED <<storage, authenticationClient, nextClientId, calls, invDone,
                   cuDone, epochClients>>

\* NewAuthenticationClientWithConfigurationProvider's outcomes: ok or error
ClientOutcomes == BOOLEAN

\* mutant: the client is stored before err is checked
SlotAfterFailedBuild_Stored(slot, id) ==
    [id |-> id, provider |-> Nil, config |-> Nil, readInv |-> 0, readCU |-> 0]

\* the error returns of the build leave b.authenticationClient as it is
SlotAfterFailedBuild(slot, id) == slot

\* the provider branch (instance principal, API key, or invalid auth_mode),
\* then authenticationClient, err := New...(configProvider); store and return
getOrCreateAuthClient_Build(t) ==
    /\ pc[t] = "goc_build"
    /\ \E envOk \in BOOLEAN, clientOk \in ClientOutcomes :
         LET mode == SelectedMode(configEntry[t])
             provider == IF mode = "instance" THEN createInstancePrincipalProvider(envOk)
                         ELSE IF mode = "apikey" THEN createAPIKeyProvider(configEntry[t])
                         ELSE Nil
             g == [ghost[t] EXCEPT !.provs = @ + 1]
             client == [id |-> nextClientId, provider |-> provider,
                        config |-> configEntry[t],
                        readInv |-> ghost[t].readInv, readCU |-> ghost[t].readCU]
             Fail(status, h) ==
                 /\ Return(t, "goc", status, Nil, h)
                 /\ authenticationClient' =
                        SlotAfterFailedBuild(authenticationClient, nextClientId)
                 /\ buildFailed' = TRUE
                 /\ UNCHANGED <<nextClientId, epochClients>>
         IN  /\ mode # "instance" => envOk
             /\ provider = Nil => clientOk
             /\ IF mode = "invalid" THEN Fail("InvalidAuthMode", ghost[t])
                ELSE IF provider = Nil
                THEN Fail(IF mode = "instance" THEN "EnvironmentError" ELSE "ProviderError", g)
                ELSE IF ~clientOk THEN Fail("ClientError", g)
                ELSE /\ authenticationClient' = client
                     /\ nextClientId' = nextClientId + 1
                     /\ epochClients' = epochClients \cup {client.id}
                     /\ Return(t, "goc", "ok", client, g)
                     /\ UNCHANGED buildFailed
    /\ authClientMutex' = FALSE
    /\ UNCHANGED <<storage, calls, invDone, cuDone>>

\* ------------------------------------------------ Invalidate
\* the handler whose InvalidateKey call (or the direct Invalidate call that)
\* just finished returns success
FinishCall(t) ==
    /\ Return(t, op[t], "ok", Nil, ghost[t])
    /\ cuDone' = IF op[t] \in Operations THEN cuDone + 1 ELSE cuDone

\* mutant: Invalidate clears the slot whatever the key
Invalidate_Call_AnyKey(t) ==
    /\ Begin(t)
    /\ \E key \in {ConfigKey, OtherKey} :
         Goto(t, IF key = ConfigKey THEN "inv" ELSE "inv_other", "inv_lock", NewGhost, Nil, Nil)
    /\ UNCHANGED <<storage, authenticationClient, authClientMutex, nextClientId,
                   invDone, cuDone, epochClients, buildFailed>>

\* Invalidate(ctx, key) called on the backend: only key "config" takes the lock
Invalidate_Call(t) ==
    /\ Begin(t)
    /\ \E key \in {ConfigKey, OtherKey} :
         IF key = ConfigKey
         THEN Goto(t, "inv", "inv_lock", NewGhost, Nil, Nil)
         ELSE Return(t, "inv_other", "ok", Nil, NewGhost)
    /\ UNCHANGED <<storage, authenticationClient, authClientMutex, nextClientId,
                   invDone, cuDone, epochClients, buildFailed>>

\* b.authClientMutex.Lock()
Invalidate_Lock(t) ==
    /\ pc[t] = "inv_lock"
    /\ MutexAvailable(authClientMutex)
    /\ authClientMutex' = TRUE
    /\ Goto(t, op[t], "inv_clear", ghost[t], configEntry[t], configProvider[t])
    /\ UNCHANGED <<storage, authenticationClient, nextClientId, calls, invDone,
                   cuDone, epochClients, buildFailed>>

\* mutant: Invalidate leaves the cached client in place
ClearedSlot_Kept(slot) == slot

\* the value Invalidate assigns to b.authenticationClient
ClearedSlot(slot) == Nil

\* b.authenticationClient = nil; deferred Unlock; return
Invalidate_Clear(t) ==
    /\ pc[t] = "inv_clear"
    /\ authenticationClient' = ClearedSlot(authenticationClient)
    /\ authClientMutex' = FALSE
    /\ invDone' = invDone + 1
    /\ epochClients' = {}
    /\ FinishCall(t)
    /\ UNCHANGED <<storage, nextClientId, calls, buildFailed>>

\* ------------------------------------------------ config handlers
\* the API-key rule of the data model, applied to a request
RequestViolatesAPIKeyRule(raw) ==
    /\ DataGet(raw, "auth_mode") = ModeAPIKey
    /\ \/ \E k \in {"tenancy_ocid", "user_ocid", "fingerprint", "private_key", "region"} :
            TrimSpace(DataGet(raw, k)) = Empty
       \/ ~Contains(DataGet(raw, "private_key"), BeginMarker)
       \/ ~Contains(DataGet(raw, "private_key"), PrivateKeyMarker)

\* the request carries no auth_mode, or an empty one
RequestLeavesAuthModeOut(raw) ==
    "auth_mode" \notin DOMAIN raw \/ raw.auth_mode = Empty

\* mutant: the API-key entry is persisted before its fields are validated
pathConfigCreateUpdate_Check_WriteFirst(t) ==
    /\ Begin(t)
    /\ \E operation \in Operations, raw \in Requests, getOk \in BOOLEAN :
         LET out == CreateUpdateCheck(operation, raw, storage, getOk)
             g == [NewGhost EXCEPT !.reqBad = RequestViolatesAPIKeyRule(raw),
                                   !.defaulted = (out.err = ""
                                                  /\ RequestLeavesAuthModeOut(raw))]
         IN  /\ IF out.err = ""
                THEN /\ Goto(t, operation, "cu_put", g, out.entry, Nil)
                     /\ UNCHANGED storage
                ELSE IF out.err \in {"MissingApiKeyFields", "InvalidPemFormat"}
                THEN /\ Return(t, operation, out.err, Nil, [g EXCEPT !.put = "ok"])
                     /\ storage' = StorageEntryJSON(OCIConfigEntry(
                            DataGet(raw, "home_tenancy_id"), ModeAPIKey,
                            DataGet(raw, "tenancy_ocid"), DataGet(raw, "user_ocid"),
                            DataGet(raw, "fingerprint"), DataGet(raw, "private_key"),
                            DataGet(raw, "private_key_passphrase"), DataGet(raw, "region")))
                ELSE /\ Return(t, operation, out.err, Nil, g)
                     /\ UNCHANGED storage
    /\ UNCHANGED <<authenticationClient, authClientMutex, nextClientId,
                   invDone, cuDone, epochClients, buildFailed>>

\* the requests in some order, and for each of them the outcomes of
\* CreateUpdateCheck, computed once: the check uses the entry it reads only
\* to test whether one exists (existing == nil)
RECURSIVE SetToSeq(_)
SetToSeq(S) ==
    IF S = {} THEN <<>>
    ELSE LET x == CHOOSE y \in S : TRUE IN <<x>> \o SetToSeq(S \ {x})

RequestSeq == SetToSeq(Requests)

CheckOutcome ==
    [i \in DOMAIN RequestSeq |->
        [operation \in Operations |->
            [present \in BOOLEAN |->
                [getOk \in BOOLEAN |->
                    CreateUpdateCheck(operation, RequestSeq[i],
                                      IF present THEN StorageEntryJSON(
                                          OCIConfigEntry(HomeA, ModeInstance, Empty, Empty,
                                                         Empty, Empty, Empty, Empty))
                                      ELSE Nil,
                                      getOk)]]]]

RequestHistory ==
    [i \in DOMAIN RequestSeq |->
        [reqBad |-> RequestViolatesAPIKeyRule(RequestSeq[i]),
         leavesOut |-> RequestLeavesAuthModeOut(RequestSeq[i]),
         homeBlank |-> TrimSpace(DataGet(RequestSeq[i], "home_tenancy_id")) = Empty]]

\* pathConfigCreateUpdate up to the decision to persist
pathConfigCreateUpdate_Check(t) ==
    /\ Begin(t)
    /\ \E operation \in Operations, i \in DOMAIN RequestSeq, getOk \in BOOLEAN :
         LET out == CheckOutcome[i][operation][storage # Nil][getOk]
             \* defaulted: authMode = "instance" was assigned to an empty auth_mode
             g == [NewGhost EXCEPT !.reqBad = RequestHistory[i].reqBad,
                                   !.defaulted = (out.err = ""
                                                  /\ RequestHistory[i].leavesOut)]
         IN  /\ RequestHistory[i].homeBlank => getOk
             /\ IF out.err = ""
                THEN Goto(t, operation, "cu_put", g, out.entry, Nil)
                ELSE Return(t, operation, out.err, Nil, g)
    /\ UNCHANGED <<storage, authenticationClient, authClientMutex, nextClientId,
                   invDone, cuDone, epochClients, buildFailed>>

\* mutant: the new entry is merged into the stored object, key by key
setOCIConfig_Merge(stored, entry, putOk) ==
    IF entry = Nil \/ ~putOk THEN [err |-> TRUE, stored |-> stored]
    ELSE LET new == StorageEntryJSON(entry)
             old == IF stored = Nil THEN new ELSE stored
         IN  [err |-> FALSE,
              stored |-> [k \in (DOMAIN old) \cup (DOMAIN new) |->
                             IF k \in DOMAIN new THEN new[k] ELSE old[k]]]

\* mutant: the error of s.Put is dropped
setOCIConfig_SwallowError(stored, entry, putOk) ==
    IF entry = Nil THEN [err |-> TRUE, stored |-> stored]
    ELSE [err |-> FALSE, stored |-> IF putOk THEN StorageEntryJSON(entry) ELSE stored]

\* setOCIConfig: nil entry is an error; else encode and s.Put
setOCIConfig(stored, entry, putOk) ==
    IF entry = Nil \/ ~putOk THEN [err |-> TRUE, stored |-> stored]
    ELSE [err |-> FALSE, stored |-> StorageEntryJSON(entry)]

\* b.InvalidateKey(ctx, "config") of framework.Backend, called by goroutine t
\* with history g: it calls the Invalidate field when that is set, and does
\* nothing otherwise, in which case the handler returns at once
InvalidateKey(t, o, g) ==
    LET h == [g EXCEPT !.signal = g.put]
    IN  IF FrameworkInvalidateSet
        THEN /\ Goto(t, o, "inv_lock", h, Nil, Nil)
             /\ UNCHANGED cuDone
        ELSE /\ Return(t, o, "ok", Nil, h)
             /\ cuDone' = IF o \in Operations THEN cuDone + 1 ELSE cuDone

\* what the storage holds when a handler writes to it: nothing, or a record
\* of some auth_mode
RecordKind(stored) ==
    IF stored = Nil THEN "absent"
    ELSE IF getOCIConfig(stored).AuthMode = ModeAPIKey THEN "apikey" ELSE "instance"

\* b.setOCIConfig(ctx, req.Storage, configEntry); b.InvalidateKey(ctx, "config")
pathConfigCreateUpdate_Put(t) ==
    /\ pc[t] = "cu_put"
    /\ \E putOk \in BOOLEAN :
         LET out == setOCIConfig(storage, configEntry[t], putOk)
             g == [ghost[t] EXCEPT !.put = IF putOk /\ configEntry[t] # Nil
                                           THEN "ok" ELSE "fail",
                                   !.over = RecordKind(storage)]
         IN  /\ storage' = out.stored
             /\ IF out.err
                THEN /\ Return(t, op[t], "PersistenceError", Nil, g)
                     /\ UNCHANGED cuDone
                ELSE InvalidateKey(t, op[t], g)
    /\ UNCHANGED <<authenticationClient, authClientMutex, nextClientId, calls,
                   invDone, epochClients, buildFailed>>

\* mutant: deleting a record that is not there is an error
pathConfigDelete_AbsentIsError(t) ==
    /\ Begin(t)
    /\ \E delOk \in BOOLEAN :
         IF delOk /\ storage # Nil
         THEN /\ storage' = Nil
              /\ InvalidateKey(t, "delete", [NewGhost EXCEPT !.put = "ok",
                                                           !.over = RecordKind(storage)])
         ELSE /\ Return(t, "delete", IF delOk THEN "NotFound" ELSE "PersistenceError", Nil,
                        [NewGhost EXCEPT !.put = IF delOk THEN "none" ELSE "fail",
                                         !.over = RecordKind(storage)])
              /\ UNCHANGED <<storage, cuDone>>
    /\ UNCHANGED <<authenticationClient, authClientMutex, nextClientId,
                   invDone, epochClients, buildFailed>>

\* pathConfigDelete: req.Storage.Delete(ctx, "config"); b.InvalidateKey(ctx, "config")
pathConfigDelete(t) ==
    /\ Begin(t)
    /\ \E delOk \in BOOLEAN :
         IF delOk
         THEN /\ storage' = Nil
              /\ InvalidateKey(t, "delete", [NewGhost EXCEPT !.put = "ok",
                                                           !.over = RecordKind(storage)])
         ELSE /\ Return(t, "delete", "PersistenceError", Nil, [NewGhost EXCEPT !.put = "fail"])
              /\ UNCHANGED <<storage, cuDone>>
    /\ UNCHANGED <<authenticationClient, authClientMutex, nextClientId,
                   invDone, epochClients, buildFailed>>

\* pathConfigRead
pathConfigRead(t) ==
    /\ Begin(t)
    /\ \E getOk \in BOOLEAN :
         LET entry == getOCIConfig(storage)
         IN  IF ~getOk THEN Return(t, "read", "PersistenceError", Nil, NewGhost)
             ELSE IF entry = Nil THEN Return(t, "read", "ok", Nil, NewGhost)
             ELSE Return(t, "read", "ok", ReadResponse(entry), NewGhost)
    /\ UNCHANGED <<storage, authenticationClient, authClientMutex, nextClientId,
                   invDone, cuDone, epochClients, buildFailed>>

\* pathConfigExistenceCheck
pathConfigExistenceCheck(t) ==
    /\ Begin(t)
    /\ \E getOk \in BOOLEAN :
         IF ~getOk THEN Return(t, "exists", "PersistenceError", [exists |-> FALSE], NewGhost)
         ELSE Return(t, "exists", "ok", [exists |-> getOCIConfig(storage) # Nil], NewGhost)
    /\ UNCHANGED <<storage, authenticationClient, authClientMutex, nextClientId,
                   invDone, cuDone, epochClients, buildFailed>>

\* ------------------------------------------------ specification
Next ==
    \E t \in Threads :
        \/ getOrCreateAuthClient_Call(t)
        \/ getOrCreateAuthClient_Lock(t)
        \/ getOrCreateAuthClient_Config(t)
        \/ getOrCreateAuthClient_Build(t)
        \/ Invalidate_Call(t)
        \/ Invalidate_Lock(t)
        \/ Invalidate_Clear(t)
        \/ pathConfigCreateUpdate_Check(t)
        \/ pathConfigCreateUpdate_Put(t)
        \/ pathConfigDelete(t)
        \/ pathConfigRead(t)
        \/ pathConfigExistenceCheck(t)

Spec == Init /\ [][Next]_vars

\* records the storage may hold whoever wrote them (an earlier version of the
\* plugin, an operator writing to the storage): every auth_mode branch of
\* getOrCreateAuthClient and pathConfigRead, with and without each API-key field
StoredRecords ==
    { OCIConfigEntry(HomeA, Empty, Empty, Empty, Empty, Empty, Empty, Empty),
      OCIConfigEntry(HomeA, Empty, TenA, UserA, FingerA, PemKey, PassA, RegionA),
      OCIConfigEntry(HomeA, ModeInstance, Empty, Empty, Empty, Empty, Empty, Empty),
      OCIConfigEntry(HomeA, ModeInstance, TenA, UserA, FingerA, PemKey, PassA, RegionA),
      OCIConfigEntry(HomeA, ModeAPIKey, TenA, UserA, FingerA, PemKey, PassA, RegionA),
      OCIConfigEntry(HomeA, ModeAPIKey, TenA, UserA, FingerA, NotPem, Empty, RegionA),
      OCIConfigEntry(HomeA, ModeAPIKey, Blank, UserA, FingerA, PemKey, Empty, RegionA),
      OCIConfigEntry(HomeA, ModeAPIKey, Empty, UserA, FingerA, PemKey, PassA, RegionA),
      OCIConfigEntry(HomeA, ModeAPIKey, TenA, Empty, FingerA, PemKey, PassA, RegionA),
      OCIConfigEntry(HomeA, ModeAPIKey, TenA, UserA, Empty, PemKey, PassA, RegionA),
      OCIConfigEntry(HomeA, ModeAPIKey, TenA, UserA, FingerA, Empty, PassA, RegionA),
      OCIConfigEntry(HomeA, ModeAPIKey, TenA, UserA, FingerA, PemKey, PassA, Empty),
      OCIConfigEntry(HomeA, ModeOther, Empty, Empty, Empty, Empty, Empty, Empty),
      OCIConfigEntry(HomeA, ModeOther, TenA, UserA, FingerA, PemKey, PassA, RegionA) }

\* the backend starts over a storage that holds no record or any of these
InitStored ==
    /\ storage \in {Nil} \cup {StorageEntryJSON(e) : e \in StoredRecords}
    /\ authenticationClient = Nil
    /\ authClientMutex = FALSE
    /\ nextClientId = 1
    /\ pc = [t \in Threads |-> "idle"]
    /\ op = [t \in Threads |-> "none"]
    /\ configEntry = [t \in Threads |-> Nil]
    /\ configProvider = [t \in Threads |-> Nil]
    /\ returned = NoReturn
    /\ calls = 0
    /\ invDone = 0
    /\ cuDone = 0
    /\ epochClients = {}
    /\ buildFailed = FALSE
    /\ ghost = [t \in Threads |-> NoGhost]

\* the operations that read the stored record and never write it
NextStored ==
    \E t \in Threads :
        \/ getOrCreateAuthClient_Call(t)
        \/ getOrCreateAuthClient_Lock(t)
        \/ getOrCreateAuthClient_Config(t)
        \/ getOrCreateAuthClient_Build(t)
        \/ Invalidate_Call(t)
        \/ Invalidate_Lock(t)
        \/ Invalidate_Clear(t)
        \/ pathConfigRead(t)
        \/ pathConfigExistenceCheck(t)

SpecStored == InitStored /\ [][NextStored]_vars

\* the steps a goroutine takes once its call has started and that wait for
\* nothing: the runtime schedules every runnable goroutine
Continue(t) ==
    \/ getOrCreateAuthClient_Config(t)
    \/ getOrCreateAuthClient_Build(t)
    \/ Invalidate_Clear(t)
    \/ pathConfigCreateUpdate_Put(t)

\* sync.RWMutex.Lock: a goroutine blocked in Lock gets the mutex if it is
\* free again and again (writers queue and the mutex is handed to them)
Fairness ==
    \A t \in Threads :
        /\ WF_vars(Continue(t))
        /\ SF_vars(getOrCreateAuthClient_Lock(t))
        /\ SF_vars(Invalidate_Lock(t))

\* the calls that take authClientMutex, over any stored record so that every
\* return path of getOrCreateAuthClient is taken, next to a config handler
\* that signals an invalidation
NextLock ==
    \E t \in Threads :
        \/ getOrCreateAuthClient_Call(t)
        \/ getOrCreateAuthClient_Lock(t)
        \/ getOrCreateAuthClient_Config(t)
        \/ getOrCreateAuthClient_Build(t)
        \/ Invalidate_Call(t)
        \/ Invalidate_Lock(t)
        \/ Invalidate_Clear(t)
        \/ pathConfigDelete(t)

\* one stored record for each way getOrCreateAuthClient returns
LockRecords ==
    { OCIConfigEntry(HomeA, ModeInstance, Empty, Empty, Empty, Empty, Empty, Empty),
      OCIConfigEntry(HomeA, ModeAPIKey, TenA, UserA, FingerA, PemKey, PassA, RegionA),
      OCIConfigEntry(HomeA, ModeAPIKey, TenA, UserA, FingerA, PemKey, PassA, Empty),
      OCIConfigEntry(HomeA, ModeOther, Empty, Empty, Empty, Empty, Empty, Empty) }

InitLock ==
    /\ InitStored
    /\ storage \in {Nil} \cup {StorageEntryJSON(e) : e \in LockRecords}

SpecLock == InitLock /\ [][NextLock]_vars /\ Fairness

TypeOK ==
    /\ authClientMutex \in BOOLEAN
    /\ calls \in 0..MaxCalls
    /\ \A t \in Threads : pc[t] \in {"idle", "goc_lock", "goc_config", "goc_build",
                                     "inv_lock", "inv_clear", "cu_put"}

\* ---------------------------------------------------------------- claims
GocReturned == returned.op = "goc"
GocReturnedClient == returned.op = "goc" /\ returned.status = "ok"
HandlerReturned == returned.op \in Operations \cup {"delete"}
BuildPcs == {"goc_config", "goc_build"}
CriticalPcs == BuildPcs \cup {"inv_clear"}
StoredEntry == getOCIConfig(storage)

\* C1: a getOrCreateAuthClient call that returns a client built from a stored
\* config returns one whose config was read after every Create/Update handler
\* that had returned success before the call began (the handler's write
\* invalidates the cached client, so the call rebuilds).
C1_InvalidationTriggersRebuild ==
    (GocReturnedClient /\ returned.val.config # Nil)
        => returned.val.readCU >= returned.g.startCU

\* C2: a getOrCreateAuthClient call never returns a client whose config was
\* read from storage before an Invalidate("config") that completed before the
\* call started.
C2_NoClientOlderThanInvalidate ==
    GocReturnedClient => returned.val.readInv >= returned.g.startInv

\* a call that started after a completed Invalidate returned a client
C2_Witness ==
    GocReturnedClient /\ returned.g.startInv >= 1 /\ storage # Nil

\* C3 as stated: while another goroutine is in the middle of a build, an
\* Invalidate call waiting for nothing but the lock can go on (clear, return).
C3_InvalidateNeverBlocks ==
    \A t \in Threads, u \in Threads :
        (pc[u] \in BuildPcs /\ pc[t] = "inv_lock") => ENABLED Invalidate_Lock(t)

\* C3 amended: Invalidate("config") takes authClientMutex, so while another
\* goroutine is mid-build it waits and does not clear the slot; whenever no
\* goroutine holds the mutex it can go on.
C3_InvalidateWaitsForBuild ==
    \A t \in Threads :
        /\ (\E u \in Threads : pc[u] \in BuildPcs)
              => (pc[t] # "inv_clear" /\ (pc[t] = "inv_lock" => ~ENABLED Invalidate_Lock(t)))
        /\ (pc[t] = "inv_lock" /\ \A u \in Threads : pc[u] \notin CriticalPcs)
              => ENABLED Invalidate_Lock(t)

\* an Invalidate call waits while the other goroutine has read the config and
\* is building the client
C3_Witness ==
    \E t \in Threads, u \in Threads : pc[u] = "goc_build" /\ pc[t] = "inv_lock"

\* C4: at most one goroutine is inside the check-build-store sequence of
\* getOrCreateAuthClient or the clear of Invalidate, the mutex is held exactly
\* then, and a returned client is the one stored in the slot.
C4_MutualExclusion ==
    /\ Cardinality({t \in Threads : pc[t] \in CriticalPcs}) <= 1
    /\ authClientMutex <=> (\E t \in Threads : pc[t] \in CriticalPcs)
    /\ GocReturnedClient => (returned.val = authenticationClient
                             /\ returned.val.provider # Nil)

\* two getOrCreateAuthClient calls contend: one builds, the other waits
C4_Witness ==
    \E t \in Threads, u \in Threads : pc[t] = "goc_build" /\ pc[u] = "goc_lock"

\* C5: a getOrCreateAuthClient call that returns an error leaves the slot
\* EMPTY and the mutex free, and keeps nothing of the failed attempt; a call
\* that then finds the slot EMPTY and succeeds has read the config and built
\* the provider itself.
C5_FailedBuildDoesNotPoison ==
    /\ (GocReturned /\ returned.status # "ok")
          => /\ authenticationClient = Nil
             /\ ~authClientMutex
             /\ returned.val = Nil
             /\ \A t \in Threads :
                   pc[t] = "idle" => (configEntry[t] = Nil /\ configProvider[t] = Nil)
    /\ (GocReturnedClient /\ ~returned.g.hit)
          => (returned.g.reads = 1 /\ returned.g.provs = 1)

\* after some call failed, a later call built and returned the first client
C5_Witness ==
    /\ buildFailed
    /\ GocReturnedClient /\ ~returned.g.hit
    /\ returned.val.id = 1

\* C6: a getOrCreateAuthClient call that takes the lock while the slot is
\* READY returns the cached client in that step, without a config read or a
\* provider build, and leaves slot and storage unchanged.
C6_HotPath ==
    [][\A t \in Threads :
          (pc[t] = "goc_lock" /\ pc'[t] # "goc_lock" /\ authenticationClient # Nil)
             => /\ pc'[t] = "idle"
                /\ returned'.status = "ok"
                /\ returned'.val = authenticationClient
                /\ returned'.g.reads = 0 /\ returned'.g.provs = 0
                /\ authenticationClient' = authenticationClient
                /\ nextClientId' = nextClientId
                /\ storage' = storage]_vars

\* a call was served from the cache
C6_Witness == GocReturnedClient /\ returned.g.hit

\* C7: between two clears of the slot at most one client is stored, it is the
\* one in the slot, and every successful call returns it.
C7_OneBuildPerEpoch ==
    /\ Cardinality(epochClients) <= 1
    /\ authenticationClient # Nil => epochClients = {authenticationClient.id}
    /\ GocReturnedClient => returned.val.id \in epochClients

\* after an invalidation the second client was built and then served from
\* the cache
C7_Witness ==
    /\ GocReturnedClient /\ returned.g.hit
    /\ invDone >= 1 /\ returned.val.id = 2

\* C8: InvalidateKey is called only after the handler's Put / Delete has
\* succeeded: never before it, not when it failed, and not when the handler
\* returns an error.
C8_InvalidateOnlyAfterMutation ==
    /\ \A t \in Threads : ghost[t].signal \in {"no", "ok"}
    /\ returned.g.signal \in {"no", "ok"}
    /\ HandlerReturned => (returned.status = "ok" <=> returned.g.signal = "ok")
    /\ HandlerReturned => (returned.status = "ok" <=> returned.g.put = "ok")

\* a handler whose storage mutation failed returned
C8_Witness ==
    HandlerReturned /\ returned.g.put = "fail" /\ returned.g.signal = "no"

\* C9: a Create/Update call that returns a validation error has not written
\* to storage: the stored record, or its absence, is as before the call.
C9_ValidationAtomicity ==
    [][(returned'.op \in Operations /\ returned'.status \in ValidationErrors)
          => (storage' = storage /\ returned'.g.put = "none")]_vars

\* a request with a private key lacking the PEM markers was rejected while a
\* record was stored
C9_Witness ==
    /\ returned.op \in Operations
    /\ returned.status = "InvalidPemFormat"
    /\ storage # Nil

\* C10: a stored record with auth_mode = apikey has non-blank tenancy_ocid,
\* user_ocid, fingerprint, private_key and region and a private_key with both
\* PEM markers; a request violating this gets an error and is not persisted.
C10_APIKeyRecordInvariant ==
    /\ (storage # Nil /\ StoredEntry.AuthMode = ModeAPIKey)
          => /\ \A f \in {"TenancyOCID", "UserOCID", "Fingerprint", "PrivateKey", "Region"} :
                   TrimSpace(StoredEntry[f]) # Empty
             /\ Contains(StoredEntry.PrivateKey, BeginMarker)
             /\ Contains(StoredEntry.PrivateKey, PrivateKeyMarker)
    /\ (returned.op \in Operations /\ returned.g.reqBad)
          => (returned.status # "ok" /\ returned.g.put # "ok")

\* the successful return of the Create/Update handler of goroutine t
PutSucceeds(t) ==
    /\ pc[t] = "cu_put" /\ pc'[t] = "idle"
    /\ returned'.op \in Operations /\ returned'.status = "ok"

\* every field of entry e is the value request raw submitted for it, the
\* default auth_mode, or empty
FieldsFromRequest(e, raw) ==
    /\ e.HomeTenancyId = DataGet(raw, "home_tenancy_id")
    /\ e.AuthMode = (IF "auth_mode" \in DOMAIN raw /\ raw.auth_mode # Empty
                     THEN raw.auth_mode ELSE ModeInstance)
    /\ \A f \in EntryFields \ {"HomeTenancyId", "AuthMode"} :
          e[f] = (IF e.AuthMode = ModeAPIKey /\ JSONTag[f] \in DOMAIN raw
                  THEN raw[JSONTag[f]] ELSE Empty)

APIKeyTags ==
    {"tenancy_ocid", "user_ocid", "fingerprint", "private_key",
     "private_key_passphrase", "region"}

\* C11: the record a Create/Update persists is computed from the request
\* alone: over whatever record a handler has left in the store, each field of
\* the record computed for a request is the submitted value, the default or
\* empty; and a successful write replaces the stored object by exactly that
\* record, so that an instance-mode record holds no API-key field at all and
\* Read reports only fields of the new record.
C11_FullReplace ==
    /\ []((HandlerReturned /\ returned.status = "ok")
            => \A raw \in Requests :
                  LET out == CreateUpdateCheck(IF storage = Nil THEN "create" ELSE "update",
                                               raw, storage, TRUE)
                  IN  out.err = "" => FieldsFromRequest(out.entry, raw))
    /\ [][\A t \in Threads :
             PutSucceeds(t)
                => /\ \E raw \in Requests : FieldsFromRequest(configEntry[t], raw)
                   /\ storage' = StorageEntryJSON(configEntry[t])
                   /\ getOCIConfig(storage') = configEntry[t]
                   /\ configEntry[t].AuthMode = ModeInstance
                         => (DOMAIN storage') \cap APIKeyTags = {}
                   /\ LET resp == ReadResponse(getOCIConfig(storage'))
                      IN  \A k \in DOMAIN resp :
                             /\ resp[k] = configEntry[t][FieldOfTag(k)]
                             /\ configEntry[t].AuthMode = ModeInstance
                                   => k \notin APIKeyTags]_vars

\* an instance-mode request replaced a stored API-key record
C11_Witness ==
    /\ returned.op \in Operations /\ returned.status = "ok"
    /\ returned.g.over = "apikey"
    /\ storage # Nil /\ StoredEntry.AuthMode = ModeInstance

ReadReturned == returned.op = "read" /\ returned.status = "ok"

\* C12: whatever record is stored, the response of Read has neither the key
\* private_key nor the key private_key_passphrase and none of its values is
\* the stored private key or passphrase; for an apikey record it has
\* auth_mode, tenancy_ocid, user_ocid, fingerprint and region with their
\* stored values.
C12_Redaction ==
    (ReadReturned /\ storage # Nil)
        => /\ returned.val # Nil
           /\ (DOMAIN returned.val) \cap {"private_key", "private_key_passphrase"} = {}
           /\ \A k \in DOMAIN returned.val :
                 /\ StoredEntry.PrivateKey # Empty => returned.val[k] # StoredEntry.PrivateKey
                 /\ StoredEntry.PrivateKeyPassphrase # Empty
                       => returned.val[k] # StoredEntry.PrivateKeyPassphrase
           /\ StoredEntry.AuthMode = ModeAPIKey
                 => /\ {"auth_mode", "tenancy_ocid", "user_ocid", "fingerprint", "region"}
                          \subseteq DOMAIN returned.val
                    /\ \A k \in DOMAIN returned.val \ {"home_tenancy_id"} :
                          returned.val[k] = StoredEntry[FieldOfTag(k)]

\* Read answered over an apikey record that holds a private key and a passphrase
C12_Witness ==
    /\ ReadReturned /\ storage # Nil
    /\ StoredEntry.AuthMode = ModeAPIKey
    /\ StoredEntry.PrivateKey # Empty /\ StoredEntry.PrivateKeyPassphrase # Empty

\* C13: an Update that finds no stored record returns NotFound without having
\* written to storage or called InvalidateKey, and leaves store and slot as
\* they are; over the store an Update call leaves behind, an Update answers
\* NotFound only when no record is stored, and then for every request a Create
\* would accept.
C13_UpdateNotFound ==
    /\ [][(returned'.op = "update" /\ returned'.status = "NotFound")
             => /\ storage = Nil /\ storage' = Nil
                /\ returned'.g.put = "none" /\ returned'.g.signal = "no"
                /\ authenticationClient' = authenticationClient]_vars
    /\ [](returned.op = "update" => \A raw \in Requests :
             LET upd == CreateUpdateCheck("update", raw, storage, TRUE)
                 cre == CreateUpdateCheck("create", raw, storage, TRUE)
             IN  /\ upd.err = "NotFound" => storage = Nil
                 /\ (storage = Nil /\ cre.err = "") => upd.err = "NotFound"
                 /\ storage = Nil => upd.entry = Nil)

\* an Update was refused with NotFound after a Create and a Delete had succeeded
C13_Witness ==
    /\ returned.op = "update" /\ returned.status = "NotFound"
    /\ storage = Nil /\ cuDone >= 1

\* C14: a successful Create/Update of a request without auth_mode (or with an
\* empty one) stores a record whose auth_mode is instance: Read reports
\* auth_mode absent or instance and never apikey, and getOrCreateAuthClient
\* takes the instance-principal branch for it and builds that provider.
C14_DefaultMode ==
    /\ (returned.op \in Operations /\ returned.status = "ok" /\ returned.g.defaulted)
          => /\ storage # Nil
             /\ StoredEntry.AuthMode = ModeInstance
             /\ LET resp == ReadResponse(StoredEntry)
                IN  /\ "auth_mode" \in DOMAIN resp => resp.auth_mode = ModeInstance
                    /\ (DOMAIN resp) \cap APIKeyTags = {}
             /\ SelectedMode(StoredEntry) = "instance"
    /\ (GocReturnedClient /\ returned.val.config # Nil
          /\ returned.val.config.AuthMode \in {Empty, ModeInstance})
          => returned.val.provider = createInstancePrincipalProvider(TRUE)
    /\ (ReadReturned /\ storage # Nil /\ StoredEntry.AuthMode \in {Empty, ModeInstance})
          => /\ "auth_mode" \in DOMAIN returned.val => returned.val.auth_mode = ModeInstance
             /\ (DOMAIN returned.val) \cap APIKeyTags = {}

\* a Create/Update without auth_mode succeeded
C14_Witness ==
    /\ returned.op \in Operations /\ returned.status = "ok"
    /\ returned.g.defaulted
    /\ storage # Nil /\ "auth_mode" \in DOMAIN storage

DeleteReturned == returned.op = "delete"

\* C15: Delete returns an error only when the storage fails, whether or not a
\* record is stored; after a successful Delete no record is stored, and a
\* successful Delete that finds no record leaves the store, the slot and the
\* mutex as the Delete before it left them.
C15_IdempotentDelete ==
    /\ [](DeleteReturned
            => /\ returned.status = "ok" <=> returned.g.put = "ok"
               /\ returned.status # "ok" => returned.status = "PersistenceError"
               /\ returned.status = "ok" => storage = Nil)
    /\ [][(returned'.op = "delete" /\ returned'.status = "ok" /\ storage = Nil)
             => /\ storage' = Nil
                /\ returned'.g.over = "absent"
                /\ authenticationClient' = authenticationClient
                /\ authClientMutex' = authClientMutex]_vars

\* a Delete succeeded over a store from which an earlier Delete had removed
\* the record
C15_Witness ==
    /\ DeleteReturned /\ returned.status = "ok"
    /\ returned.g.over = "absent"
    /\ cuDone >= 1

\* C16: when a Delete handler has returned success and no other call is in
\* flight, the client slot is EMPTY: the client cached before the Delete is
\* gone.
C16_DeleteErasesCachedClient ==
    (DeleteReturned /\ returned.status = "ok" /\ \A t \in Threads : pc[t] = "idle")
        => authenticationClient = Nil

\* a getOrCreateAuthClient call that found the slot EMPTY and read the record
GocBuiltOrFailed == GocReturned /\ ~returned.g.hit /\ returned.status # "ReadError"

RequiredAPIKeyFields == {"TenancyOCID", "UserOCID", "Fingerprint", "PrivateKey", "Region"}

\* C17: a getOrCreateAuthClient call that finds the slot EMPTY picks its
\* provider from the stored record alone.  No record, auth_mode empty or
\* instance: the instance-principal provider (the call can fail only for the
\* environment or the client constructor).  auth_mode apikey: the API-key
\* provider carrying the record's fields, and a provider error when
\* tenancy_ocid, user_ocid, fingerprint, private_key or region is empty.  Any
\* other auth_mode: the invalid-auth_mode error before any provider is built.
\* Every failure leaves the slot EMPTY.
C17_StrategySelection ==
    GocBuiltOrFailed
        => /\ returned.status # "ok" => authenticationClient = Nil
           /\ IF storage = Nil \/ StoredEntry.AuthMode \in {Empty, ModeInstance}
              THEN /\ returned.status \in {"ok", "EnvironmentError", "ClientError"}
                   /\ returned.status = "ok" => returned.val.provider.kind = "instance"
              ELSE IF StoredEntry.AuthMode = ModeAPIKey
              THEN IF \E f \in RequiredAPIKeyFields : StoredEntry[f] = Empty
                   THEN returned.status = "ProviderError"
                   ELSE /\ returned.status \in {"ok", "ClientError"}
                        /\ returned.status = "ok"
                              => /\ returned.val.provider.kind = "apikey"
                                 /\ returned.val.provider.tenancy = StoredEntry.TenancyOCID
                                 /\ returned.val.provider.user = StoredEntry.UserOCID
                                 /\ returned.val.provider.fingerprint = StoredEntry.Fingerprint
                                 /\ returned.val.provider.privateKey = StoredEntry.PrivateKey
                                 /\ returned.val.provider.region = StoredEntry.Region
              ELSE /\ returned.status = "InvalidAuthMode"
                   /\ returned.g.provs = 0

\* a call over an apikey record without region failed in the provider
C17_Witness ==
    /\ GocBuiltOrFailed /\ returned.status = "ProviderError"
    /\ StoredEntry.AuthMode = ModeAPIKey /\ StoredEntry.Region = Empty
    /\ authenticationClient = Nil

\* C18: a Read that returns without error returns no response exactly when
\* no record is stored, and otherwise a field map that holds the stored
\* home_tenancy_id.
C18_ReadNoContent ==
    ReadReturned
        => /\ returned.val = Nil <=> storage = Nil
           /\ storage # Nil
                 => /\ "home_tenancy_id" \in DOMAIN returned.val
                    /\ returned.val.home_tenancy_id = StoredEntry.HomeTenancyId

\* Read found nothing after a Create had succeeded and the record was deleted
C18_Witness ==
    /\ ReadReturned /\ returned.val = Nil
    /\ cuDone >= 1

\* C19: a cached client leaves the slot only when an Invalidate call for key
\* "config" clears it: every other step (of getOrCreateAuthClient, successful
\* or failing, of the config handlers, of Invalidate for another key) leaves a
\* non-nil b.authenticationClient exactly as it is.
C19_OnlyInvalidateClears ==
    [][authenticationClient # Nil
          => \/ authenticationClient' = authenticationClient
             \/ /\ authenticationClient' = Nil
                /\ \E t \in Threads : pc[t] = "inv_clear" /\ pc'[t] = "idle"
                /\ returned'.op # "inv_other"
                /\ invDone' = invDone + 1]_vars

\* the first Invalidate("config") call has cleared a slot that held a client
C19_Witness ==
    /\ returned.op = "inv" /\ invDone = 1
    /\ nextClientId >= 2
    /\ authenticationClient = Nil

\* C20: the store goes from no record to a record only by the write of a
\* Create: an Update never brings a record into an empty store, whatever
\* other handlers run concurrently with it.
C20_UpdateNeverCreates ==
    [][(storage = Nil /\ storage' # Nil) => returned'.op = "create"]_vars

\* a getOrCreateAuthClient call built a client with the API-key provider
APIKeyClientBuilt ==
    /\ GocReturnedClient /\ ~returned.g.hit
    /\ returned.val.provider.kind = "apikey"

\* C21: the API-key provider is given no passphrase (a nil pointer) exactly
\* when the stored private_key_passphrase is empty, and the stored value
\* otherwise; it is never given the empty string as the passphrase.
C21_PassphraseThreading ==
    APIKeyClientBuilt
        => /\ returned.val.provider.passphrase = NoPassphrase
                 <=> StoredEntry.PrivateKeyPassphrase = Empty
           /\ StoredEntry.PrivateKeyPassphrase # Empty
                 => returned.val.provider.passphrase =
                        [set |-> TRUE, val |-> StoredEntry.PrivateKeyPassphrase]
           /\ returned.val.provider.passphrase # [set |-> TRUE, val |-> Empty]

\* a client was built from an apikey record that stores no passphrase
C21_Witness ==
    /\ APIKeyClientBuilt
    /\ StoredEntry.PrivateKeyPassphrase = Empty
    /\ returned.val.provider.passphrase = NoPassphrase

\* no handler and no getOrCreateAuthClient or Invalidate call is in flight
Quiescent == \A t \in Threads : pc[t] = "idle"

\* C22: at quiescence a cached client was built from the record that is in
\* storage now (from no record, if none is stored).
C22_CacheCoherence ==
    (Quiescent /\ authenticationClient # Nil)
        => authenticationClient.config = getOCIConfig(storage)

\* C23: a stored record has a home_tenancy_id that is not blank once trimmed
\* and an auth_mode that is exactly instance or apikey; an instance record
\* has all six API-key fields empty, in the decoded record and in the stored
\* object.
C23_StoredRecordWellFormed ==
    storage # Nil
        => /\ TrimSpace(StoredEntry.HomeTenancyId) # Empty
           /\ StoredEntry.AuthMode \in {ModeInstance, ModeAPIKey}
           /\ StoredEntry.AuthMode = ModeInstance
                 => /\ \A f \in EntryFields \ {"HomeTenancyId", "AuthMode"} :
                          StoredEntry[f] = Empty
                    /\ (DOMAIN storage) \cap APIKeyTags = {}

\* an Update has replaced an instance record by an apikey record
C23_Witness ==
    /\ returned.op = "update" /\ returned.status = "ok"
    /\ returned.g.over = "instance"
    /\ storage # Nil /\ StoredEntry.AuthMode = ModeAPIKey

\* C24: every call that has started returns, so a getOrCreateAuthClient or
\* Invalidate call waiting for authClientMutex gets it; the holder gives it
\* back on every return path: the mutex is held only by a goroutine inside
\* one of the two critical sections and is always freed again.
C24_LockLiveness ==
    /\ \A t \in Threads : (pc[t] # "idle") ~> (pc[t] = "idle")
    /\ authClientMutex ~> ~authClientMutex
    /\ [](authClientMutex => \E t \in Threads : pc[t] \in CriticalPcs)

\* a getOrCreateAuthClient call waits for the mutex while an Invalidate call
\* holds it
C24_Witness ==
    \E t \in Threads, u \in Threads : pc[t] = "goc_lock" /\ pc[u] = "inv_clear"

\* C25: Read, ExistenceCheck and Invalidate for a key other than "config"
\* leave the stored record, the client slot and the mutex as they are;
\* ExistenceCheck answers true exactly when a record is stored, and false
\* with the error when the storage read fails.
C25_ReadOnlyOperations ==
    [][returned'.op \in {"read", "exists", "inv_other"}
          => /\ storage' = storage
             /\ authenticationClient' = authenticationClient
             /\ authClientMutex' = authClientMutex
             /\ nextClientId' = nextClientId
             /\ returned'.op = "exists"
                   => returned'.val.exists = (returned'.status = "ok" /\ storage # Nil)]_vars

\* ExistenceCheck answered true while a client was cached
C25_Witness ==
    /\ returned.op = "exists" /\ returned.status = "ok"
    /\ returned.val.exists
    /\ authenticationClient # Nil

====
